---- MODULE Spec2Model ----
(***************************************************************************)
(* rpian-terminal: the viewport, the cursor move, the two-point Bresenham *)
(* diagonal_line and the line input of src/lib.rs, the direction-based    *)
(* Line engine and the free diagonal_line of src/line/mod.rs, and the box *)
(* composer of src/rbox/mod.rs.                                           *)
(*                                                                         *)
(* The output sink is modelled by the log `out` of what the operation in  *)
(* progress (or the one that ended last) has emitted, in order:           *)
(*   mv   - the cursor-move sequence ESC[y;xH written to stdout           *)
(*   ch   - one character written to stdout                               *)
(*   err  - one BoundaryError handed to the error handler (its message)   *)
(*   ioerr- one io::Error handed to the error handler                     *)
(*   wait - one blocking sleep                                            *)
(* Characters are named by their code point ("U+2571"); the ASCII ones    *)
(* stand for themselves (" ", "*").                                       *)
(***************************************************************************)
EXTENDS Integers, Sequences, FiniteSets, TLC

VARIABLES
    vw, vh,           \* VIEWPORT_WIDTH, VIEWPORT_HEIGHT
    overflow_checks,  \* the build: TRUE = arithmetic overflow panics, FALSE = it wraps
    pc,               \* "idle", "diag", "wait", "erase", "panic"
    call,             \* the operation in progress, or the one that ended last
    loc,              \* the locals of the two-point diagonal_line loop
    line,             \* the caller's Line
    out,              \* what the operation `call` has emitted so far
    prevCall, prev,   \* the operation before `call`, and what it emitted
    ncalls,           \* operations since the caller last changed a field or the viewport
    pts,              \* the points the Bresenham loop has computed so far
    req,              \* the coordinates the caller passes to lib.rs operations
    stdin             \* the lines of the standard input not yet read

vars == <<vw, vh, overflow_checks, pc, call, loc, line, out, prevCall, prev, ncalls, pts, req,
          stdin>>

(***************************************************************************)
(* Bounds of the model.                                                    *)
(***************************************************************************)
MaxCoord == 5      \* end points and cursor positions are drawn from 0..MaxCoord
MaxSize == 3       \* Line.size is drawn from 0..MaxSize
MaxCalls == 2      \* Line operations in a row on unchanged fields
MaxBox == 3        \* box widths and heights are drawn from 0..MaxBox, and more
MaxLines == 3      \* the standard input holds at most MaxLines lines

DefaultWidth == 80
DefaultHeight == 24
U8Max == 255
U16Max == 65535

\* viewports the caller sets in the cursor / Bresenham specification
Views == {<<0, 0>>, <<3, 3>>, <<4, 2>>, <<MaxCoord, MaxCoord>>, <<U16Max, U16Max>>}

Abs(n) == IF n < 0 THEN -n ELSE n
Max(a, b) == IF a >= b THEN a ELSE b

(***************************************************************************)
(* Sink events.                                                            *)
(***************************************************************************)
Mv(x, y) == [k |-> "mv", x |-> x, y |-> y, c |-> "", n |-> 1, w |-> 0, m |-> ""]
Ch(c) == [k |-> "ch", x |-> 0, y |-> 0, c |-> c, n |-> 1, w |-> 0, m |-> ""]
Err(msg) == [k |-> "err", x |-> 0, y |-> 0, c |-> msg, n |-> 1, w |-> 0, m |-> ""]
Wait(d) == [k |-> "wait", x |-> d, y |-> 0, c |-> "", n |-> 1, w |-> 0, m |-> ""]
\* The loops of rbox/mod.rs may run 65535 times; what they emit is kept in blocks:
\*   ch with n      - n times the character c in a row
\*   rows           - n iterations, iteration i = the cursor move to (x, y + i),
\*                    then w times the character c
\*   errrows        - n iterations, each = a refused cursor move (the
\*                    BoundaryError m), then w times the character c
ChRun(c, n) == [k |-> "ch", x |-> 0, y |-> 0, c |-> c, n |-> n, w |-> 0, m |-> ""]
Rows(x, y, n, w, c) == [k |-> "rows", x |-> x, y |-> y, c |-> c, n |-> n, w |-> w, m |-> ""]
ErrRows(msg, n, w, c) == [k |-> "errrows", x |-> 0, y |-> 0, c |-> c, n |-> n, w |-> w, m |-> msg]

NoCall == [op |-> "none"]
NoLoc == [x |-> 0, y |-> 0, err |-> 0, dx |-> 0, dy |-> 0, sx |-> 0, sy |-> 0,
          x2 |-> 0, y2 |-> 0, w |-> 0, h |-> 0, symbol |-> ""]

(***************************************************************************)
(* error::handle_boundary_error with the default handler: logs, returns.  *)
(***************************************************************************)
handle_boundary_error(log, msg) == Append(log, Err(msg))

\* lib.rs put_char / print: the character goes to stdout and is flushed
put_char(log, c) == Append(log, Ch(c))

(***************************************************************************)
(* lib.rs move_cursor_to: only the upper bounds are tested.                *)
(***************************************************************************)
move_cursor_to(log, x, y) ==
    IF x > vw \/ y > vh
    THEN handle_boundary_error(log, "Cursor position is outside viewport")
    ELSE Append(log, Mv(x, y))

\* lib.rs get_viewport
get_viewport == <<vw, vh>>

\* mutant: set_viewport refuses a zero bound
set_viewport_positive(w, h) ==
    /\ pc = "idle"
    /\ vw' = IF w = 0 THEN 1 ELSE w
    /\ vh' = IF h = 0 THEN 1 ELSE h
    /\ call' = [op |-> "set_viewport", w |-> w, h |-> h]
    /\ out' = <<>>
    /\ prev' = <<>>
    /\ prevCall' = NoCall
    /\ ncalls' = 0
    /\ pts' = <<>>
    /\ UNCHANGED <<overflow_checks, pc, loc, line, req, stdin>>

\* lib.rs set_viewport, called between operations
set_viewport(w, h) ==
    /\ pc = "idle"
    /\ vw' = w
    /\ vh' = h
    /\ call' = [op |-> "set_viewport", w |-> w, h |-> h]
    /\ out' = <<>>
    /\ prev' = <<>>
    /\ prevCall' = NoCall
    /\ ncalls' = 0
    /\ pts' = <<>>
    /\ UNCHANGED <<overflow_checks, pc, loc, line, req, stdin>>

\* Another thread calls set_viewport while an operation of this thread is in
\* progress: its two Relaxed stores (lib.rs 1072-1073) become visible to this
\* thread one at a time, in either order.
StoreViewportWidth(w) ==
    /\ pc = "diag"
    /\ vw' = w
    /\ UNCHANGED <<vh, overflow_checks, pc, call, loc, line, out, prevCall, prev, ncalls, pts,
                   req, stdin>>

StoreViewportHeight(h) ==
    /\ pc = "diag"
    /\ vh' = h
    /\ UNCHANGED <<vw, overflow_checks, pc, call, loc, line, out, prevCall, prev, ncalls, pts,
                   req, stdin>>

\* a call of move_cursor_to(x, y) by the program
CallMoveCursorTo(x, y) ==
    /\ pc = "idle"
    /\ call' = [op |-> "move_cursor_to", x |-> x, y |-> y, w |-> vw, h |-> vh]
    /\ out' = move_cursor_to(<<>>, x, y)
    /\ prev' = <<>>
    /\ prevCall' = NoCall
    /\ ncalls' = 0
    /\ pts' = <<>>
    /\ UNCHANGED <<vw, vh, overflow_checks, pc, loc, line, req, stdin>>

(***************************************************************************)
(* lib.rs diagonal_line(symbol, x1, y1, x2, y2): Bresenham.                *)
(***************************************************************************)
\* mutant: the x step is +1 whatever the order of x1 and x2
DiagBeginStepRight(symbol, x1, y1, x2, y2) ==
    /\ pc = "idle"
    /\ call' = [op |-> "diagonal_line", symbol |-> symbol,
                x1 |-> x1, y1 |-> y1, x2 |-> x2, y2 |-> y2, w |-> vw, h |-> vh]
    /\ prev' = <<>>
    /\ prevCall' = NoCall
    /\ ncalls' = 0
    /\ pts' = <<>>
    /\ IF x1 > vw \/ y1 > vh \/ x2 > vw \/ y2 > vh
       THEN /\ out' = handle_boundary_error(<<>>, "Line coordinates are outside viewport")
            /\ pc' = "idle"
            /\ loc' = NoLoc
       ELSE /\ out' = <<>>
            /\ pc' = "diag"
            /\ loc' = [x |-> x1, y |-> y1,
                       dx |-> Abs(x2 - x1), dy |-> -Abs(y2 - y1),
                       sx |-> 1,
                       sy |-> IF y1 < y2 THEN 1 ELSE -1,
                       err |-> Abs(x2 - x1) + (-Abs(y2 - y1)),
                       x2 |-> x2, y2 |-> y2, w |-> vw, h |-> vh, symbol |-> symbol]
    /\ UNCHANGED <<vw, vh, overflow_checks, line, req, stdin>>

\* the end-point check and the loop's initial values (lib.rs 1160-1175)
DiagBegin(symbol, x1, y1, x2, y2) ==
    /\ pc = "idle"
    /\ call' = [op |-> "diagonal_line", symbol |-> symbol,
                x1 |-> x1, y1 |-> y1, x2 |-> x2, y2 |-> y2, w |-> vw, h |-> vh]
    /\ prev' = <<>>
    /\ prevCall' = NoCall
    /\ ncalls' = 0
    /\ pts' = <<>>
    /\ IF x1 > vw \/ y1 > vh \/ x2 > vw \/ y2 > vh
       THEN /\ out' = handle_boundary_error(<<>>, "Line coordinates are outside viewport")
            /\ pc' = "idle"
            /\ loc' = NoLoc
       ELSE /\ out' = <<>>
            /\ pc' = "diag"
            /\ loc' = [x |-> x1, y |-> y1,
                       dx |-> Abs(x2 - x1), dy |-> -Abs(y2 - y1),
                       sx |-> IF x1 < x2 THEN 1 ELSE -1,
                       sy |-> IF y1 < y2 THEN 1 ELSE -1,
                       err |-> Abs(x2 - x1) + (-Abs(y2 - y1)),
                       x2 |-> x2, y2 |-> y2, w |-> vw, h |-> vh, symbol |-> symbol]
    /\ UNCHANGED <<vw, vh, overflow_checks, line, req, stdin>>

\* the per-point bounds test of the loop (lib.rs 1178), on the viewport
\* read when the call began
DiagInside(l) == l.x >= 0 /\ l.x < l.w /\ l.y >= 0 /\ l.y < l.h

\* mutant: the y advance made the else branch of the x advance
BresenhamAdvanceElse(l) ==
    LET e2 == 2 * l.err
        stepx == e2 >= l.dy
        stepy == (~stepx) /\ e2 <= l.dx
    IN  [l EXCEPT !.err = @ + (IF stepx THEN l.dy ELSE 0) + (IF stepy THEN l.dx ELSE 0),
                  !.x = IF stepx THEN @ + l.sx ELSE @,
                  !.y = IF stepy THEN @ + l.sy ELSE @]

\* the error update and the advance of one iteration (lib.rs 1187-1195)
BresenhamAdvance(l) ==
    LET e2 == 2 * l.err
        stepx == e2 >= l.dy
        stepy == e2 <= l.dx
    IN  [l EXCEPT !.err = @ + (IF stepx THEN l.dy ELSE 0) + (IF stepy THEN l.dx ELSE 0),
                  !.x = IF stepx THEN @ + l.sx ELSE @,
                  !.y = IF stepy THEN @ + l.sy ELSE @]

\* one iteration of the loop (lib.rs 1177-1196)
DiagStep ==
    /\ pc = "diag"
    /\ pts' = Append(pts, <<loc.x, loc.y>>)
    /\ out' = IF DiagInside(loc)
              THEN put_char(move_cursor_to(out, loc.x, loc.y), loc.symbol)
              ELSE out
    /\ IF loc.x = loc.x2 /\ loc.y = loc.y2
       THEN /\ pc' = "idle"
            /\ loc' = NoLoc
       ELSE /\ pc' = "diag"
            /\ loc' = BresenhamAdvance(loc)
    /\ UNCHANGED <<vw, vh, overflow_checks, call, line, prevCall, prev, ncalls, req, stdin>>

(***************************************************************************)
(* Glyph tables of line/mod.rs, star/mod.rs and circle/mod.rs.             *)
(***************************************************************************)
get_horizontal_line_char(style) ==
    CASE style = "Light" -> "U+2500"
      [] style = "Heavy" -> "U+2501"
      [] style = "Double" -> "U+2550"
      [] style = "LightTripleDash" -> "U+2504"
      [] style = "HeavyTripleDash" -> "U+2505"
      [] style = "LightQuadrupleDash" -> "U+2508"
      [] style = "HeavyQuadrupleDash" -> "U+2509"
      [] style = "Dotted" -> "U+00B7"
      [] style = "LightDoubleDash" -> "U+254C"
      [] style = "HeavyDoubleDash" -> "U+254D"
      [] style = "Wavy" -> "U+FE49"
      [] style = "Space" -> " "

get_vertical_line_char(style) ==
    CASE style = "Light" -> "U+2502"
      [] style = "Heavy" -> "U+2503"
      [] style = "Double" -> "U+2551"
      [] style = "LightTripleDash" -> "U+2506"
      [] style = "HeavyTripleDash" -> "U+2507"
      [] style = "LightQuadrupleDash" -> "U+250A"
      [] style = "HeavyQuadrupleDash" -> "U+250B"
      [] style = "Dotted" -> "U+00B7"
      [] style = "LightDoubleDash" -> "U+254E"
      [] style = "HeavyDoubleDash" -> "U+254F"
      [] style = "Space" -> " "

get_diagonal_line_char(style) ==
    CASE style = "ForwardDiagonal" -> "U+2571"
      [] style = "BackwardDiagonal" -> "U+2572"
      [] style = "ForwardSlash" -> "/"
      [] style = "BackwardSlash" -> "\\"
      [] style = "Space" -> " "

star_symbol_to_char(symbol) ==
    CASE symbol = "BlackStar" -> "U+2605"
      [] symbol = "WhiteStar" -> "U+2606"
      [] symbol = "FourPointedBlackStar" -> "U+2726"
      [] symbol = "FourPointedWhiteStar" -> "U+2727"
      [] symbol = "FivePointedBlackStar" -> "U+272D"
      [] symbol = "FivePointedWhiteStar" -> "U+272E"
      [] symbol = "SixPointedBlackStar" -> "U+2736"
      [] symbol = "SixPointedWhiteStar" -> "U+2734"
      [] symbol = "EightPointedBlackStar" -> "U+2734"
      [] symbol = "EightPointedWhiteStar" -> "U+2735"
      [] symbol = "CircledWhiteStar" -> "U+272A"
      [] symbol = "CircledBlackStar" -> "U+272B"
      [] symbol = "OpenCenterBlackStar" -> "U+272F"
      [] symbol = "HeavyEightPointedStar" -> "U+2737"
      [] symbol = "SparklingStar" -> "U+2748"
      [] symbol = "SunStar" -> "U+2600"
      [] symbol = "Asterisk" -> "U+2731"
      [] symbol = "BoldFivePointedBlackStar" -> "U+2B50"
      [] symbol = "OutlinedBlackStar" -> "U+2730"
      [] symbol = "HeavyFourBalloonStar" -> "U+2723"

circle_symbol_to_char(symbol) ==
    CASE symbol = "Circle" -> "U+25CB"
      [] symbol = "FilledCircle" -> "U+25CF"
      [] symbol = "LargeCircle" -> "U+25EF"
      [] symbol = "MediumFilledCircle" -> "U+2B24"
      [] symbol = "DottedCircle" -> "U+25CC"
      [] symbol = "CircleWithLeftHalfBlack" -> "U+25D0"
      [] symbol = "CircleWithRightHalfBlack" -> "U+25D1"
      [] symbol = "CircledDot" -> "U+25CD"
      [] symbol = "CircleWithVerticalFill" -> "U+25D3"
      [] symbol = "CircleWithHorizontalFill" -> "U+25D2"
      [] symbol = "Bullseye" -> "U+25CE"
      [] symbol = "SunSymbol" -> "U+2609"
      [] symbol = "FishEye" -> "U+25C9"
      [] symbol = "CircleWithTwoDotsInside" -> "U+2687"
      [] symbol = "FilledCircleWithTwoDotsInside" -> "U+2689"
      [] symbol = "RedCircle" -> "U+1F534"
      [] symbol = "BlueCircle" -> "U+1F535"
      [] symbol = "CircledPlus" -> "U+2295"
      [] symbol = "CircledMinus" -> "U+2296"
      [] symbol = "CircledTimes" -> "U+2297"


(***************************************************************************)
(* line/mod.rs: the Line, its style and the direction-based draw.          *)
(***************************************************************************)
Directions == {"North", "South", "East", "West",
               "NorthEast", "NorthWest", "SouthEast", "SouthWest"}

Star(s) == [t |-> "Star", s |-> s]
Circle(s) == [t |-> "Circle", s |-> s]
VSpace == [t |-> "Space", s |-> ""]

get_vertice(v) ==
    CASE v.t = "Star" -> star_symbol_to_char(v.s)
      [] v.t = "Circle" -> circle_symbol_to_char(v.s)
      [] v.t = "Space" -> " "

LineStyle(hs, vs, ss, es, enabless, enablees) ==
    [hs |-> hs, vs |-> vs, ds |-> TRUE, ss |-> ss, es |-> es,
     enabless |-> enabless, enablees |-> enablees]

\* Line::new()
Line_new ==
    [x |-> 1, y |-> 1, size |-> 10,
     style |-> LineStyle("Light", "Light", Circle("FilledCircle"), Circle("FilledCircle"),
                         TRUE, TRUE),
     direction |-> "East"]

\* the styles, origins and viewports the Line specification draws from
LineStyles ==
    { LineStyle("Light", "Light", Circle("FilledCircle"), Circle("FilledCircle"), TRUE, TRUE),
      LineStyle("Heavy", "Double", Star("BlackStar"), Circle("Circle"), TRUE, TRUE),
      LineStyle("Space", "Space", Star("BlackStar"), Circle("Circle"), TRUE, TRUE),
      LineStyle("Dotted", "Dotted", Star("BlackStar"), Circle("Circle"), FALSE, FALSE),
      LineStyle("Light", "Heavy", VSpace, Star("WhiteStar"), TRUE, FALSE),
      LineStyle("Wavy", "Light", Star("WhiteStar"), VSpace, FALSE, TRUE) }

LineCoords == {1, 3, U8Max}
LineViews == {<<MaxCoord, MaxCoord>>, <<300, 300>>}
Lines == [x : LineCoords, y : LineCoords, size : 0..MaxSize,
          style : LineStyles, direction : Directions]

None == [some |-> FALSE, d |-> 0]
Some(d) == [some |-> TRUE, d |-> d]
Times == {None, Some(2)}

\* the value of a failed u8 operation in a build with overflow checks
Panic == -1

\* line/mod.rs decrement and increment on a u8
decrement(v) ==
    IF v - 1 < 0
    THEN (IF overflow_checks THEN Panic ELSE (v - 1) % (U8Max + 1))
    ELSE v - 1

increment(v) ==
    IF v + 1 > U8Max
    THEN (IF overflow_checks THEN Panic ELSE (v + 1) % (U8Max + 1))
    ELSE v + 1

\* the closure `op` Line::draw passes for each direction (line/mod.rs 242-297):
\* the next current_x and current_y, or ok = FALSE when the closure panicked
LineOp(direction, a, b) ==
    LET pair(na, nb) == [ok |-> na # Panic /\ nb # Panic, x |-> na, y |-> nb]
    IN  CASE direction = "East" -> pair(increment(a), b)
          [] direction = "West" -> pair(decrement(a), b)
          [] direction = "North" -> pair(a, decrement(b))
          [] direction = "South" -> pair(a, increment(b))
          [] direction = "NorthWest" -> pair(decrement(a), decrement(b))
          [] direction = "NorthEast" -> pair(increment(a), decrement(b))
          [] direction = "SouthWest" -> pair(decrement(a), increment(b))
          [] direction = "SouthEast" -> pair(increment(a), increment(b))

\* mutant: the diagonal glyphs of the free function line::diagonal_line
LineCharAsFreeFn(l, show) ==
    IF ~show THEN " "
    ELSE CASE l.direction \in {"East", "West"} -> get_horizontal_line_char(l.style.hs)
           [] l.direction \in {"North", "South"} -> get_vertical_line_char(l.style.vs)
           [] l.direction = "NorthWest" -> get_diagonal_line_char("ForwardDiagonal")
           [] l.direction \in {"NorthEast", "SouthWest", "SouthEast"} ->
                  get_diagonal_line_char("BackwardDiagonal")

\* the character `ch` Line::draw passes for each direction (line/mod.rs 242-297)
LineChar(l, show) ==
    IF ~show THEN " "
    ELSE CASE l.direction \in {"East", "West"} -> get_horizontal_line_char(l.style.hs)
           [] l.direction \in {"North", "South"} -> get_vertical_line_char(l.style.vs)
           [] l.direction \in {"NorthWest", "SouthEast"} ->
                  get_diagonal_line_char("BackwardDiagonal")
           [] l.direction \in {"NorthEast", "SouthWest"} ->
                  get_diagonal_line_char("ForwardDiagonal")

\* mutant: the vertex glyph is written whether or not the pass erases
StepCharNoBlank(l, ch, i) ==
    IF i = 0 /\ l.style.enabless
    THEN get_vertice(l.style.ss)
    ELSE IF i = l.size - 1 /\ l.style.enablees
         THEN get_vertice(l.style.es)
         ELSE ch

\* the character written at step i (line/mod.rs 306-312)
StepChar(l, ch, i) ==
    IF i = 0 /\ l.style.enabless
    THEN (IF ch # " " THEN get_vertice(l.style.ss) ELSE " ")
    ELSE IF i = l.size - 1 /\ l.style.enablees
         THEN (IF ch # " " THEN get_vertice(l.style.es) ELSE " ")
         ELSE ch

\* the loop of the inner fn draw (line/mod.rs 300-316), from step s.i on:
\* the log at the end, and whether the loop ran to its end
RECURSIVE DrawLoop(_, _, _)
DrawLoop(l, ch, s) ==
    IF ~(s.i < l.size)
    THEN [out |-> s.out, ok |-> TRUE]
    ELSE LET written == put_char(move_cursor_to(s.out, s.x, s.y), StepChar(l, ch, s.i))
             next == LineOp(l.direction, s.x, s.y)
         IN  IF ~next.ok
             THEN [out |-> written, ok |-> FALSE]
             ELSE DrawLoop(l, ch, [i |-> s.i + 1, x |-> next.x, y |-> next.y,
                                   out |-> written])

\* Line::draw(&self, show), appending to log
Line_draw(l, show, log) ==
    DrawLoop(l, LineChar(l, show), [i |-> 0, x |-> l.x, y |-> l.y, out |-> log])

LineCall(op, time) ==
    [op |-> op, time |-> time, line |-> line, w |-> vw, h |-> vh]

\* mutant: show keeps a "currently drawn" flag and draws nothing when the
\* Line is already shown
ShowIfNotDrawn(time) ==
    /\ pc = "idle"
    /\ ncalls < MaxCalls
    /\ LET r == IF call.op = "show"
                THEN [out |-> <<>>, ok |-> TRUE]
                ELSE Line_draw(line, TRUE, <<>>)
       IN  /\ out' = r.out
           /\ pc' = IF ~r.ok THEN "panic" ELSE IF time.some THEN "wait" ELSE "idle"
    /\ call' = LineCall("show", time)
    /\ prevCall' = call
    /\ prev' = out
    /\ ncalls' = ncalls + 1
    /\ pts' = <<>>
    /\ UNCHANGED <<vw, vh, overflow_checks, loc, line, req, stdin>>

\* Shape::show(&self, time) up to the end of its draw pass (line/mod.rs 332-333)
Show(time) ==
    /\ pc = "idle"
    /\ ncalls < MaxCalls
    /\ LET r == Line_draw(line, TRUE, <<>>)
       IN  /\ out' = r.out
           /\ pc' = IF ~r.ok THEN "panic" ELSE IF time.some THEN "wait" ELSE "idle"
    /\ call' = LineCall("show", time)
    /\ prevCall' = call
    /\ prev' = out
    /\ ncalls' = ncalls + 1
    /\ pts' = <<>>
    /\ UNCHANGED <<vw, vh, overflow_checks, loc, line, req, stdin>>

\* wait_for_seconds(x) in show (line/mod.rs 336)
ShowWait ==
    /\ pc = "wait"
    /\ out' = Append(out, Wait(call.time.d))
    /\ pc' = "erase"
    /\ UNCHANGED <<vw, vh, overflow_checks, call, loc, line, prevCall, prev, ncalls, pts, req, stdin>>

\* mutant: show draws again after the wait instead of hiding
ShowEraseRedraw ==
    /\ pc = "erase"
    /\ LET r == Line_draw(line, TRUE, out)
       IN  /\ out' = r.out
           /\ pc' = IF r.ok THEN "idle" ELSE "panic"
    /\ UNCHANGED <<vw, vh, overflow_checks, call, loc, line, prevCall, prev, ncalls, pts, req, stdin>>

\* self.hide() in show (line/mod.rs 337)
ShowErase ==
    /\ pc = "erase"
    /\ LET r == Line_draw(line, FALSE, out)
       IN  /\ out' = r.out
           /\ pc' = IF r.ok THEN "idle" ELSE "panic"
    /\ UNCHANGED <<vw, vh, overflow_checks, call, loc, line, prevCall, prev, ncalls, pts, req, stdin>>

\* mutant: hide draws the glyphs again instead of blanks
HideRedraw ==
    /\ pc = "idle"
    /\ ncalls < MaxCalls
    /\ LET r == Line_draw(line, TRUE, <<>>)
       IN  /\ out' = r.out
           /\ pc' = IF r.ok THEN "idle" ELSE "panic"
    /\ call' = LineCall("hide", None)
    /\ prevCall' = call
    /\ prev' = out
    /\ ncalls' = ncalls + 1
    /\ pts' = <<>>
    /\ UNCHANGED <<vw, vh, overflow_checks, loc, line, req, stdin>>

\* Shape::hide(&self) (line/mod.rs 343-345)
Hide ==
    /\ pc = "idle"
    /\ ncalls < MaxCalls
    /\ LET r == Line_draw(line, FALSE, <<>>)
       IN  /\ out' = r.out
           /\ pc' = IF r.ok THEN "idle" ELSE "panic"
    /\ call' = LineCall("hide", None)
    /\ prevCall' = call
    /\ prev' = out
    /\ ncalls' = ncalls + 1
    /\ pts' = <<>>
    /\ UNCHANGED <<vw, vh, overflow_checks, loc, line, req, stdin>>

\* Shape::move_to(&mut self, x, y) (line/mod.rs 327-330)
MoveTo(x, y) ==
    /\ pc = "idle"
    /\ line' = [line EXCEPT !.x = x, !.y = y]
    /\ call' = [op |-> "move_to", x |-> x, y |-> y]
    /\ out' = <<>>
    /\ prev' = <<>>
    /\ prevCall' = NoCall
    /\ ncalls' = 0
    /\ pts' = <<>>
    /\ UNCHANGED <<vw, vh, overflow_checks, pc, loc, req, stdin>>

(***************************************************************************)
(* rbox/mod.rs: boxes and shaded rectangles.  Coordinates are u16; the     *)
(* functions return io::Result, modelled by ret: "Ok", "Err", or "Panic"   *)
(* when an arithmetic overflow ended the process.  The cursor move and     *)
(* put_char they call are the ones of lib.rs, which hand a refused move to *)
(* the error handler and return; the ? applied to them never returns       *)
(* early.                                                                  *)
(***************************************************************************)
\* x + y and x - y on u16: the build decides whether an overflow panics or wraps
add_u16(a, b) ==
    IF a = Panic \/ b = Panic THEN Panic
    ELSE IF a + b > U16Max
         THEN (IF overflow_checks THEN Panic ELSE (a + b) % (U16Max + 1))
         ELSE a + b

sub_u16(a, b) ==
    IF a = Panic \/ b = Panic THEN Panic
    ELSE IF a - b < 0
         THEN (IF overflow_checks THEN Panic ELSE (a - b) % (U16Max + 1))
         ELSE a - b

block_char_to_char(ch) ==
    CASE ch = "Full" -> "U+2588"
      [] ch = "UpperHalf" -> "U+2580"
      [] ch = "LowerHalf" -> "U+2584"
      [] ch = "LeftHalf" -> "U+258C"
      [] ch = "RightHalf" -> "U+2590"
      [] ch = "LightShade" -> "U+2591"
      [] ch = "MediumShade" -> "U+2592"
      [] ch = "DarkShade" -> "U+2593"

get_line_char(style, is_vertical) ==
    CASE style = "Solid" -> (IF is_vertical THEN "U+2502" ELSE "U+2500")
      [] style = "Dotted" -> (IF is_vertical THEN "U+2506" ELSE "U+2504")
      [] style = "Dashed" -> (IF is_vertical THEN "U+250A" ELSE "U+2508")
      [] style = "DoubleLine" -> (IF is_vertical THEN "U+2551" ELSE "U+2550")

get_box_corners(style) ==
    CASE style = "Single" -> <<"U+250C", "U+2510", "U+2514", "U+2518">>
      [] style = "Double" -> <<"U+2554", "U+2557", "U+255A", "U+255D">>
      [] style = "SingleRounded" -> <<"U+256D", "U+256E", "U+2570", "U+256F">>
      [] style = "DoubleRounded" -> <<"U+2552", "U+2555", "U+2558", "U+255B">>
      [] style = "Dotted" -> <<"U+250C", "U+2510", "U+2514", "U+2518">>
      [] style = "Dashed" -> <<"U+250C", "U+2510", "U+2514", "U+2518">>

\* the line style draw_box selects for a box style (rbox/mod.rs 291-296)
box_line_style(style) ==
    CASE style \in {"Single", "SingleRounded"} -> "Solid"
      [] style \in {"Double", "DoubleRounded"} -> "DoubleLine"
      [] style = "Dotted" -> "Dotted"
      [] style = "Dashed" -> "Dashed"

\* the shade character draw_shaded_rectangle selects (rbox/mod.rs 348-353)
shade_char(style) ==
    CASE style = "Light" -> block_char_to_char("LightShade")
      [] style = "Medium" -> block_char_to_char("MediumShade")
      [] style = "Dark" -> block_char_to_char("DarkShade")
      [] style = "Solid" -> block_char_to_char("Full")

\* A frame r = [out, ok]: the log so far, and whether the process still runs.
\* A statement whose argument overflowed with a panic emits nothing.
Stopped(r) == [out |-> r.out, ok |-> FALSE]

\* `for _ in 0..n { put_char(c) }`
put_chars(log, c, n) == IF n = 0 THEN log ELSE Append(log, ChRun(c, n))

Min(a, b) == IF a <= b THEN a ELSE b

\* `for i in 0..n { move_cursor_to(x, y + i); w times put_char(c) }` on u16:
\* the iterations that run before y + i overflows with a panic (all of them in
\* a wrapping build), in blocks of accepted and refused cursor moves
row_loop(log, x, y, n, w, c) ==
    LET done == IF overflow_checks THEN Min(n, U16Max - y + 1) ELSE n
        nowrap == Min(done, U16Max - y + 1)
        moved(r) == move_cursor_to(<<>>, x, r)[1]
        acc1 == IF moved(y).k = "mv" THEN Min(nowrap, vh - y + 1) ELSE 0
        ref1 == nowrap - acc1
        wrapped == done - nowrap
        acc2 == IF wrapped > 0 /\ moved(0).k = "mv" THEN Min(wrapped, vh + 1) ELSE 0
        ref2 == wrapped - acc2
        refused == moved(U16Max).c
        b1 == IF acc1 > 0 THEN <<Rows(x, y, acc1, w, c)>> ELSE <<>>
        b2 == IF ref1 > 0 THEN <<ErrRows(refused, ref1, w, c)>> ELSE <<>>
        b3 == IF acc2 > 0 THEN <<Rows(x, 0, acc2, w, c)>> ELSE <<>>
        b4 == IF ref2 > 0 THEN <<ErrRows(refused, ref2, w, c)>> ELSE <<>>
    IN  [out |-> log \o b1 \o b2 \o b3 \o b4, ok |-> done = n]

\* rbox horizontal_line (rbox/mod.rs 249-256)
rbox_horizontal_line(r, x, y, width, style) ==
    IF ~r.ok \/ x = Panic \/ y = Panic \/ width = Panic
    THEN Stopped(r)
    ELSE [out |-> put_chars(move_cursor_to(r.out, x, y), get_line_char(style, FALSE), width),
          ok |-> TRUE]

\* rbox vertical_line (rbox/mod.rs 259-266): iteration i moves to (x, y + i)
rbox_vertical_line(r, x, y, height, style) ==
    IF ~r.ok \/ x = Panic \/ y = Panic \/ height = Panic
    THEN Stopped(r)
    ELSE row_loop(r.out, x, y, height, 1, get_line_char(style, TRUE))

\* move_cursor_to(x, y)?; put_char(c)?;
rbox_corner(r, x, y, c) ==
    IF ~r.ok \/ x = Panic \/ y = Panic
    THEN Stopped(r)
    ELSE [out |-> put_char(move_cursor_to(r.out, x, y), c), ok |-> TRUE]

\* mutant: the check compares the last column and row with the bounds
box_check_last(x, y, width, height) ==
    LET xw == sub_u16(add_u16(x, width), 1)
        yh == sub_u16(add_u16(y, height), 1)
    IN  IF xw = Panic THEN "Panic"
        ELSE IF xw > vw THEN "Err"
        ELSE IF yh = Panic THEN "Panic"
        ELSE IF yh > vh THEN "Err"
        ELSE "Ok"

\* the bounds check the three functions share (rbox/mod.rs 283, 341, 380):
\* "Panic" when a sum overflowed with a panic, else whether the request is refused
box_check(x, y, width, height) ==
    LET xw == add_u16(x, width)
        yh == add_u16(y, height)
    IN  IF xw = Panic THEN "Panic"
        ELSE IF xw > vw THEN "Err"
        ELSE IF yh = Panic THEN "Panic"
        ELSE IF yh > vh THEN "Err"
        ELSE "Ok"

Result(r) == [out |-> r.out, ret |-> IF r.ok THEN "Ok" ELSE "Panic"]

\* mutant: the edges start at the corner column and row
draw_box_from_corner(x, y, width, height, style) ==
    LET chk == box_check(x, y, width, height)
        corners == get_box_corners(style)
        line_style == box_line_style(style)
        r0 == [out |-> <<>>, ok |-> TRUE]
        r1 == rbox_horizontal_line(r0, x, y, sub_u16(width, 2), line_style)
        r2 == rbox_horizontal_line(r1, add_u16(x, 1), sub_u16(add_u16(y, height), 1),
                                   sub_u16(width, 2), line_style)
        r3 == rbox_vertical_line(r2, x, y, sub_u16(height, 2), line_style)
        r4 == rbox_vertical_line(r3, sub_u16(add_u16(x, width), 1), add_u16(y, 1),
                                 sub_u16(height, 2), line_style)
        r5 == rbox_corner(r4, x, y, corners[1])
        r6 == rbox_corner(r5, sub_u16(add_u16(x, width), 1), y, corners[2])
        r7 == rbox_corner(r6, x, sub_u16(add_u16(y, height), 1), corners[3])
        r8 == rbox_corner(r7, sub_u16(add_u16(x, width), 1),
                          sub_u16(add_u16(y, height), 1), corners[4])
    IN  IF chk # "Ok" THEN [out |-> <<>>, ret |-> chk] ELSE Result(r8)

\* rbox draw_box (rbox/mod.rs 280-317)
draw_box(x, y, width, height, style) ==
    LET chk == box_check(x, y, width, height)
        corners == get_box_corners(style)
        line_style == box_line_style(style)
        r0 == [out |-> <<>>, ok |-> TRUE]
        r1 == rbox_horizontal_line(r0, add_u16(x, 1), y, sub_u16(width, 2), line_style)
        r2 == rbox_horizontal_line(r1, add_u16(x, 1), sub_u16(add_u16(y, height), 1),
                                   sub_u16(width, 2), line_style)
        r3 == rbox_vertical_line(r2, x, add_u16(y, 1), sub_u16(height, 2), line_style)
        r4 == rbox_vertical_line(r3, sub_u16(add_u16(x, width), 1), add_u16(y, 1),
                                 sub_u16(height, 2), line_style)
        r5 == rbox_corner(r4, x, y, corners[1])
        r6 == rbox_corner(r5, sub_u16(add_u16(x, width), 1), y, corners[2])
        r7 == rbox_corner(r6, x, sub_u16(add_u16(y, height), 1), corners[3])
        r8 == rbox_corner(r7, sub_u16(add_u16(x, width), 1),
                          sub_u16(add_u16(y, height), 1), corners[4])
    IN  IF chk # "Ok" THEN [out |-> <<>>, ret |-> chk] ELSE Result(r8)

\* the loop draw_shaded_rectangle and hide_box share (rbox/mod.rs 355-360, 387-392):
\* row dy moves to (x, y + dy) and writes width characters
fill_rows(x, y, width, height, c) == row_loop(<<>>, x, y, height, width, c)

\* mutant: the fill leaves out the last column
draw_shaded_rectangle_short(x, y, width, height, style) ==
    LET chk == box_check(x, y, width, height)
    IN  IF chk # "Ok" THEN [out |-> <<>>, ret |-> chk]
        ELSE Result(fill_rows(x, y, IF width > 0 THEN width - 1 ELSE 0, height,
                              shade_char(style)))

\* rbox draw_shaded_rectangle (rbox/mod.rs 332-363)
draw_shaded_rectangle(x, y, width, height, style) ==
    LET chk == box_check(x, y, width, height)
    IN  IF chk # "Ok" THEN [out |-> <<>>, ret |-> chk]
        ELSE Result(fill_rows(x, y, width, height, shade_char(style)))

\* mutant: hide_box blanks the border only
hide_box_border(x, y, width, height) ==
    LET d == draw_box(x, y, width, height, "Single")
    IN  [out |-> [i \in DOMAIN d.out |-> [d.out[i] EXCEPT !.c = " "]],
         ret |-> d.ret]

\* rbox hide_box (rbox/mod.rs 377-395)
hide_box(x, y, width, height) ==
    LET chk == box_check(x, y, width, height)
    IN  IF chk # "Ok" THEN [out |-> <<>>, ret |-> chk]
        ELSE Result(fill_rows(x, y, width, height, " "))

\* a call of one of the three functions with the caller's request
BoxCall(op, r) ==
    /\ pc = "idle"
    /\ call' = [op |-> op, x |-> req.x, y |-> req.y, width |-> req.width,
                height |-> req.height, style |-> req.style, shade |-> req.shade,
                w |-> vw, h |-> vh, ret |-> r.ret]
    /\ out' = r.out
    /\ pc' = IF r.ret = "Panic" THEN "panic" ELSE "idle"
    /\ prevCall' = call
    /\ prev' = out
    /\ pts' = <<>>
    /\ UNCHANGED <<vw, vh, overflow_checks, loc, line, ncalls, req, stdin>>

DrawBox == BoxCall("draw_box", draw_box(req.x, req.y, req.width, req.height, req.style))
DrawShadedRectangle ==
    BoxCall("draw_shaded_rectangle",
            draw_shaded_rectangle(req.x, req.y, req.width, req.height, req.shade))
HideBox == BoxCall("hide_box", hide_box(req.x, req.y, req.width, req.height))

\* the caller assigns the public field direction (examples/test10.rs 15-33)
SetDirection(d) ==
    /\ pc = "idle"
    /\ line' = [line EXCEPT !.direction = d]
    /\ call' = [op |-> "set_direction", direction |-> d]
    /\ out' = <<>>
    /\ prev' = <<>>
    /\ prevCall' = NoCall
    /\ ncalls' = 0
    /\ pts' = <<>>
    /\ UNCHANGED <<vw, vh, overflow_checks, pc, loc, req, stdin>>

(***************************************************************************)
(* line/mod.rs: the free function diagonal_line(x, y, size, direction).    *)
(* Coordinates are u16; ret is "Ok", or "Panic" when an arithmetic         *)
(* overflow ended the process.                                             *)
(***************************************************************************)
\* the step of iteration i (line/mod.rs 136-154): the character and the u16
\* position, or brk for the arm `_ => break`
free_diagonal_step(x, y, i, direction) ==
    LET k == i % (U16Max + 1)
        step(style, nx, ny) ==
            [brk |-> FALSE, c |-> get_diagonal_line_char(style), x |-> nx, y |-> ny]
    IN  CASE direction = "NorthEast" -> step("BackwardDiagonal", sub_u16(x, k), sub_u16(y, k))
          [] direction = "NorthWest" -> step("ForwardDiagonal", add_u16(x, k), sub_u16(y, k))
          [] direction = "SouthWest" -> step("BackwardDiagonal", add_u16(x, k), add_u16(y, k))
          [] direction = "SouthEast" -> step("BackwardDiagonal", add_u16(x, k), add_u16(y, k))
          [] OTHER -> [brk |-> TRUE, c |-> "", x |-> 0, y |-> 0]

\* the loop (line/mod.rs 135-163) from iteration i on, with the viewport
\* (w, h) the function read at its start
RECURSIVE free_diagonal_loop(_, _, _, _, _, _, _, _)
free_diagonal_loop(x, y, size, direction, w, h, i, log) ==
    IF ~(i < size)
    THEN [out |-> log, ret |-> "Ok"]
    ELSE LET s == free_diagonal_step(x, y, i, direction)
         IN  IF s.brk THEN [out |-> log, ret |-> "Ok"]
             ELSE IF s.x = Panic \/ s.y = Panic THEN [out |-> log, ret |-> "Panic"]
             ELSE IF s.x >= w \/ s.y >= h \/ s.x < 1 \/ s.y < 1
                  THEN [out |-> handle_boundary_error(log, "Line extends beyond viewport"),
                        ret |-> "Ok"]
                  ELSE free_diagonal_loop(x, y, size, direction, w, h, i + 1,
                                          put_char(move_cursor_to(log, s.x, s.y), s.c))

\* mutant: the start position is tested after the direction
line_diagonal_line_direction_first(x, y, size, direction) ==
    LET viewport_width == get_viewport[1]
        viewport_height == get_viewport[2]
    IN  IF direction \in {"North", "South", "East", "West"}
        THEN [out |-> <<>>, ret |-> "Ok"]
        ELSE IF x >= viewport_width \/ y >= viewport_height
        THEN [out |-> handle_boundary_error(<<>>, "Line start position is outside viewport"),
              ret |-> "Ok"]
        ELSE free_diagonal_loop(x, y, size, direction, viewport_width, viewport_height,
                                0, <<>>)

\* line::diagonal_line (line/mod.rs 127-164)
line_diagonal_line(x, y, size, direction) ==
    LET viewport_width == get_viewport[1]
        viewport_height == get_viewport[2]
    IN  IF x >= viewport_width \/ y >= viewport_height
        THEN [out |-> handle_boundary_error(<<>>, "Line start position is outside viewport"),
              ret |-> "Ok"]
        ELSE free_diagonal_loop(x, y, size, direction, viewport_width, viewport_height,
                                0, <<>>)

\* a call of line::diagonal_line with the caller's request
LineDiagonalLine ==
    /\ pc = "idle"
    /\ LET r == line_diagonal_line(req.x, req.y, req.size, req.direction)
       IN  /\ call' = [op |-> "line::diagonal_line", x |-> req.x, y |-> req.y,
                       size |-> req.size, direction |-> req.direction,
                       w |-> vw, h |-> vh, ret |-> r.ret]
           /\ out' = r.out
           /\ pc' = IF r.ret = "Panic" THEN "panic" ELSE "idle"
    /\ prevCall' = call
    /\ prev' = out
    /\ pts' = <<>>
    /\ UNCHANGED <<vw, vh, overflow_checks, loc, line, ncalls, req, stdin>>

(***************************************************************************)
(* lib.rs read_line and read_key.  The standard input is the sequence of   *)
(* its lines not yet read; a line is its characters, the terminating "\n"  *)
(* included (the last line before the end of input may lack it), or a line *)
(* that is not valid UTF-8, on which the read fails.  An io::Error handed  *)
(* to the error handler is the event ioerr.                                *)
(***************************************************************************)
IoErr(msg) == [k |-> "ioerr", x |-> 0, y |-> 0, c |-> msg, n |-> 1, w |-> 0, m |-> ""]

\* error::handle_io_error with the default handler: logs, returns
handle_io_error(log, e) == Append(log, IoErr(e))

TextLine(s) == [ok |-> TRUE, s |-> s]
InvalidLine == [ok |-> FALSE, s |-> <<>>]

\* io::stdin().read_line(&mut input) into an empty String: the line consumed
\* (none at the end of input), what is left, and the io::Result
stdin_read_line(in) ==
    IF in = <<>>
    THEN [ok |-> TRUE, input |-> <<>>, rest |-> <<>>]
    ELSE IF in[1].ok
         THEN [ok |-> TRUE, input |-> in[1].s, rest |-> Tail(in)]
         ELSE [ok |-> FALSE, input |-> <<>>, rest |-> Tail(in)]

Whitespace == {" ", "\n", "\t", "\r"}

\* str::trim
RECURSIVE trim_start(_)
trim_start(s) ==
    IF s # <<>> /\ s[1] \in Whitespace THEN trim_start(Tail(s)) ELSE s
RECURSIVE trim_end(_)
trim_end(s) ==
    IF s # <<>> /\ s[Len(s)] \in Whitespace THEN trim_end(SubSeq(s, 1, Len(s) - 1)) ELSE s
trim(s) == trim_end(trim_start(s))

Nul == "U+0000"

\* lib.rs read_line (500-510)
read_line(in) ==
    LET r == stdin_read_line(in)
    IN  IF r.ok
        THEN [ret |-> trim(r.input), rest |-> r.rest, out |-> <<>>]
        ELSE [ret |-> <<>>, rest |-> r.rest,
              out |-> handle_io_error(<<>>, "stream did not contain valid UTF-8")]

\* lib.rs read_key (750-771): the first character of one line, then a second
\* read_line into a string that is dropped
read_key(in) ==
    LET r == stdin_read_line(in)
        first_char == IF r.input = <<>> THEN Nul ELSE r.input[1]
        clear == stdin_read_line(r.rest)
    IN  IF r.ok
        THEN [ret |-> first_char, rest |-> clear.rest,
              out |-> IF clear.ok THEN <<>>
                      ELSE handle_io_error(<<>>, "stream did not contain valid UTF-8")]
        ELSE [ret |-> Nul, rest |-> r.rest,
              out |-> handle_io_error(<<>>, "stream did not contain valid UTF-8")]

\* a call of read_line() or read_key() by the program
ReadCall(op, r) ==
    /\ pc = "idle"
    /\ call' = [op |-> op, before |-> stdin, ret |-> r.ret]
    /\ stdin' = r.rest
    /\ out' = r.out
    /\ prevCall' = call
    /\ prev' = out
    /\ UNCHANGED <<vw, vh, overflow_checks, pc, loc, line, ncalls, pts, req>>

ReadLine == ReadCall("read_line", read_line(stdin))
ReadKey == ReadCall("read_key", read_key(stdin))

(***************************************************************************)
(* Specifications.                                                         *)
(***************************************************************************)
Coords == 0..MaxCoord
Requests == [symbol : {"*"}, x1 : Coords, y1 : Coords, x2 : Coords, y2 : Coords]
NoRequest == [symbol |-> "", x1 |-> 0, y1 |-> 0, x2 |-> 0, y2 |-> 0]

\* the cursor move and the two-point diagonal_line with the coordinates req,
\* default viewport at start
Init ==
    /\ vw = DefaultWidth
    /\ vh = DefaultHeight
    /\ overflow_checks \in BOOLEAN
    /\ pc = "idle"
    /\ call = NoCall
    /\ loc = NoLoc
    /\ line = Line_new
    /\ out = <<>>
    /\ prevCall = NoCall
    /\ prev = <<>>
    /\ ncalls = 0
    /\ pts = <<>>
    /\ req \in Requests
    /\ stdin = <<>>

SetViewport == \E v \in Views : set_viewport(v[1], v[2])
MoveCursor == CallMoveCursorTo(req.x1, req.y1)
DiagonalLine == DiagBegin(req.symbol, req.x1, req.y1, req.x2, req.y2)

Next == SetViewport \/ MoveCursor \/ DiagonalLine \/ DiagStep

Spec == Init /\ [][Next]_vars

\* the same, with the loop of diagonal_line running on: the calling thread is
\* never suspended inside the loop
FairSpec == Spec /\ WF_vars(DiagStep)

\* the two-point diagonal_line of this thread while another thread shrinks
\* the viewport
OtherViews == {<<2, 2>>, <<3, 1>>}
ConcRequests == {r \in Requests : r.x1 \in {1, MaxCoord} /\ r.y1 \in {1, MaxCoord}}

InitConc ==
    /\ vw = DefaultWidth
    /\ vh = DefaultHeight
    /\ overflow_checks \in BOOLEAN
    /\ pc = "idle"
    /\ call = NoCall
    /\ loc = NoLoc
    /\ line = Line_new
    /\ out = <<>>
    /\ prevCall = NoCall
    /\ prev = <<>>
    /\ ncalls = 0
    /\ pts = <<>>
    /\ req \in ConcRequests
    /\ stdin = <<>>

OtherSetViewport ==
    \E v \in OtherViews : StoreViewportWidth(v[1]) \/ StoreViewportHeight(v[2])

NextConc == DiagonalLine \/ DiagStep \/ OtherSetViewport

SpecConc == InitConc /\ [][NextConc]_vars

\* the Line engine: a Line the caller built, in a viewport the caller set
InitLine ==
    /\ \E v \in LineViews : vw = v[1] /\ vh = v[2]
    /\ overflow_checks \in BOOLEAN
    /\ pc = "idle"
    /\ call = NoCall
    /\ loc = NoLoc
    /\ line \in Lines
    /\ out = <<>>
    /\ prevCall = NoCall
    /\ prev = <<>>
    /\ ncalls = 0
    /\ pts = <<>>
    /\ req = NoRequest
    /\ stdin = <<>>

LineShow == \E t \in Times : Show(t)
LineMoveTo == \E x \in LineCoords, y \in LineCoords : MoveTo(x, y)
LineSetViewport == \E v \in LineViews : set_viewport(v[1], v[2])
LineSetDirection == \E d \in Directions : SetDirection(d)

NextLine ==
    \/ LineShow \/ ShowWait \/ ShowErase \/ Hide
    \/ LineMoveTo \/ LineSetDirection \/ LineSetViewport

SpecLine == InitLine /\ [][NextLine]_vars

\* the box composer: one request of the caller, drawn and hidden in the
\* viewports the caller sets
BoxStyles == {"Single", "Double", "SingleRounded", "DoubleRounded", "Dotted", "Dashed"}
ShadeStyles == {"Light", "Medium", "Dark", "Solid"}
BoxReq(x, y, width, height, style, shade) ==
    [x |-> x, y |-> y, width |-> width, height |-> height, style |-> style, shade |-> shade]
BoxViews == {<<0, 0>>, <<0, MaxBox>>, <<2, 2>>, <<MaxBox + 2, MaxBox + 2>>, <<10, 10>>,
             <<DefaultWidth, DefaultHeight>>}
BoxRequests ==
    {BoxReq(x, y, w, h, "Single", "Solid") : x \in 0..2, y \in 0..2, w \in 0..MaxBox, h \in 0..MaxBox}
    \cup {BoxReq(g[1], g[2], g[3], g[4], st, sh) :
            g \in {<<1, 1, 3, 3>>, <<0, 0, 3, 3>>, <<5, 3, 20, 5>>},
            st \in BoxStyles, sh \in ShadeStyles}
    \cup {BoxReq(g[1], g[2], g[3], g[4], "Double", "Medium") :
            g \in {<<20, 20, 1, 1>>, <<20, 20, 4, 4>>, <<78, 22, 2, 2>>, <<U16Max, 0, 1, 1>>, <<1, U16Max, 2, 2>>, <<U16Max - 1, 1, 2, 2>>}}

InitBox ==
    /\ vw = DefaultWidth
    /\ vh = DefaultHeight
    /\ overflow_checks \in BOOLEAN
    /\ pc = "idle"
    /\ call = NoCall
    /\ loc = NoLoc
    /\ line = Line_new
    /\ out = <<>>
    /\ prevCall = NoCall
    /\ prev = <<>>
    /\ ncalls = 0
    /\ pts = <<>>
    /\ req \in BoxRequests
    /\ stdin = <<>>

BoxSetViewport == \E v \in BoxViews : set_viewport(v[1], v[2])

NextBox == DrawBox \/ DrawShadedRectangle \/ HideBox \/ BoxSetViewport

SpecBox == InitBox /\ [][NextBox]_vars

\* the free function line::diagonal_line with one request of the caller, in
\* the viewports the caller sets
FreeViews == {<<0, 0>>, <<3, 3>>, <<MaxCoord, MaxCoord>>, <<DefaultWidth, DefaultHeight>>}
FreeRequests == [x : Coords, y : Coords, size : 0..MaxSize, direction : Directions]

InitFree ==
    /\ vw = DefaultWidth
    /\ vh = DefaultHeight
    /\ overflow_checks \in BOOLEAN
    /\ pc = "idle"
    /\ call = NoCall
    /\ loc = NoLoc
    /\ line = Line_new
    /\ out = <<>>
    /\ prevCall = NoCall
    /\ prev = <<>>
    /\ ncalls = 0
    /\ pts = <<>>
    /\ req \in FreeRequests
    /\ stdin = <<>>

FreeSetViewport == \E v \in FreeViews : set_viewport(v[1], v[2])

NextFree == LineDiagonalLine \/ FreeSetViewport

SpecFree == InitFree /\ [][NextFree]_vars

\* the input collaborator: a stream of at most MaxLines lines, read by
\* read_line and read_key in any order
InputLines ==
    {TextLine(<<"a", "b", "\n">>), TextLine(<<"\n">>), TextLine(<<" ", "c", " ", "\n">>),
     TextLine(<<"q">>), InvalidLine}
Terminated(l) == ~l.ok \/ (l.s # <<>> /\ l.s[Len(l.s)] = "\n")
Streams ==
    {s \in UNION {[1..n -> InputLines] : n \in 0..MaxLines} :
        \A i \in 1..(Len(s) - 1) : Terminated(s[i])}

InitInput ==
    /\ vw = DefaultWidth
    /\ vh = DefaultHeight
    /\ overflow_checks \in BOOLEAN
    /\ pc = "idle"
    /\ call = NoCall
    /\ loc = NoLoc
    /\ line = Line_new
    /\ out = <<>>
    /\ prevCall = NoCall
    /\ prev = <<>>
    /\ ncalls = 0
    /\ pts = <<>>
    /\ req = NoRequest
    /\ stdin \in Streams

NextInput == ReadLine \/ ReadKey

SpecInput == InitInput /\ [][NextInput]_vars

(***************************************************************************)
(* Vocabulary of the properties.                                           *)
(***************************************************************************)
Returned(op) == pc = "idle" /\ call.op = op

\* a position is valid iff 1 <= x <= viewport.width and 1 <= y <= viewport.height
ValidPos(x, y) == 1 <= x /\ x <= vw /\ 1 <= y /\ y <= vh

IsErr(e) == e.k = "err"
Count(log, kind) == Cardinality({i \in DOMAIN log : log[i].k = kind})

\* the symbol c is written at (x, y): the cursor move to (x, y), then c
WrittenAt(log, c, x, y) ==
    \E i \in 1..(Len(log) - 1) : log[i] = Mv(x, y) /\ log[i + 1] = Ch(c)

WaitIdx(log) == {i \in DOMAIN log : log[i].k = "wait"}
FirstWait(log) == CHOOSE i \in WaitIdx(log) : \A j \in WaitIdx(log) : i <= j
\* what a show emitted before its wait, and after it
DrawPart(log) == IF WaitIdx(log) = {} THEN log ELSE SubSeq(log, 1, FirstWait(log) - 1)
ErasePart(log) == IF WaitIdx(log) = {} THEN <<>> ELSE SubSeq(log, FirstWait(log) + 1, Len(log))
\* the same output with every character replaced by a space
Blank(log) ==
    [i \in DOMAIN log |->
        IF log[i].k \in {"ch", "rows", "errrows"} THEN [log[i] EXCEPT !.c = " "] ELSE log[i]]
\* the steps a pass has run: each step emits a cursor move (or its error), then a character
Steps(log) == Len(log) \div 2

\* the per-step delta of a direction, as the specification states it
DeltaX(d) == CASE d \in {"East", "NorthEast", "SouthEast"} -> 1
               [] d \in {"West", "NorthWest", "SouthWest"} -> -1
               [] OTHER -> 0
DeltaY(d) == CASE d \in {"South", "SouthEast", "SouthWest"} -> 1
               [] d \in {"North", "NorthEast", "NorthWest"} -> -1
               [] OTHER -> 0
AllValid(l) ==
    \A i \in 0..(l.size - 1) :
        ValidPos(l.x + i * DeltaX(l.direction), l.y + i * DeltaY(l.direction))

\* The screen the sink paints, as far as the emitted stream determines it:
\* a cursor move sets the cursor, a character is written at the cursor and
\* advances it one column; a refused cursor move leaves the cursor where it
\* is.  The cursor starts at home, where clear_screen leaves it.  Cells are
\* the coordinates the program addresses.
CursorHome == <<1, 1>>
CursorAfter(cur, e) ==
    CASE e.k = "mv" -> <<e.x, e.y>>
      [] e.k = "ch" -> <<cur[1] + e.n, cur[2]>>
      [] e.k = "rows" -> <<e.x + e.w, e.y + e.n - 1>>
      [] e.k = "errrows" -> <<cur[1] + e.n * e.w, cur[2]>>
      [] OTHER -> cur
RECURSIVE CursorBefore(_, _)
CursorBefore(log, i) ==
    IF i = 1 THEN CursorHome ELSE CursorAfter(CursorBefore(log, i - 1), log[i - 1])
\* the event i of log writes the cell p
PaintsAt(log, i, p) ==
    LET e == log[i]
        cur == CursorBefore(log, i)
    IN  CASE e.k = "ch" -> p[2] = cur[2] /\ cur[1] <= p[1] /\ p[1] < cur[1] + e.n
          [] e.k = "rows" -> /\ e.y <= p[2] /\ p[2] < e.y + e.n
                             /\ e.x <= p[1] /\ p[1] < e.x + e.w
          [] e.k = "errrows" -> /\ p[2] = cur[2]
                                /\ cur[1] <= p[1] /\ p[1] < cur[1] + e.n * e.w
          [] OTHER -> FALSE
\* the cells the event i of log writes
PaintSet(log, i) ==
    LET e == log[i]
        cur == CursorBefore(log, i)
    IN  CASE e.k = "ch" -> {<<cur[1] + d, cur[2]>> : d \in 0..(e.n - 1)}
          [] e.k = "rows" -> {<<e.x + d, e.y + r>> : d \in 0..(e.w - 1), r \in 0..(e.n - 1)}
          [] e.k = "errrows" -> {<<cur[1] + d, cur[2]>> : d \in 0..(e.n * e.w - 1)}
          [] OTHER -> {}
Cells(log) == UNION {PaintSet(log, i) : i \in DOMAIN log}
\* what the cell p holds after log, on a screen whose cells held bg before
Content(log, p, bg) ==
    LET J == {i \in DOMAIN log : PaintsAt(log, i, p)}
    IN  IF J = {} THEN bg ELSE log[CHOOSE j \in J : \A i \in J : i <= j].c
\* what a cell of the screen may hold before a call
Backgrounds == {" ", "#"}

IsVertexStep(l, i) ==
    \/ i = 0 /\ l.style.enabless
    \/ i = l.size - 1 /\ l.style.enablees

(***************************************************************************)
(* C1: for every viewport and every (x, y), move_cursor_to(x, y) emits     *)
(* exactly the cursor-move sequence ESC[y;xH when 1 <= x <= W and          *)
(* 1 <= y <= H, and for every other (x, y), x = 0 and y = 0 included, it   *)
(* reports a BoundaryError and emits no sequence.                          *)
(***************************************************************************)
C1_CursorMoveChecksBothBounds ==
    Returned("move_cursor_to") =>
        IF ValidPos(call.x, call.y)
        THEN out = <<Mv(call.x, call.y)>>
        ELSE Len(out) = 1 /\ IsErr(out[1])

(***************************************************************************)
(* C2: the points the Bresenham loop of the two-point diagonal_line        *)
(* computes for accepted end points start at (x1,y1), end at (x2,y2), are  *)
(* max(|x2-x1|,|y2-y1|)+1 many, never repeat and are 8-connected;          *)
(* (1,1)->(5,5) gives the 5 diagonal points and (1,1)->(5,1) the 5         *)
(* collinear ones.                                                         *)
(***************************************************************************)
Accepted == call.op = "diagonal_line" /\ call.x1 <= call.w /\ call.y1 <= call.h
                /\ call.x2 <= call.w /\ call.y2 <= call.h

C2_BresenhamPoints ==
    Accepted =>
        /\ \A i, j \in DOMAIN pts : i # j => pts[i] # pts[j]
        /\ \A i \in 1..(Len(pts) - 1) :
               /\ Abs(pts[i + 1][1] - pts[i][1]) <= 1
               /\ Abs(pts[i + 1][2] - pts[i][2]) <= 1
        /\ Len(pts) >= 1 => pts[1] = <<call.x1, call.y1>>
        /\ pc = "idle" =>
               /\ Len(pts) = Max(Abs(call.x2 - call.x1), Abs(call.y2 - call.y1)) + 1
               /\ pts[Len(pts)] = <<call.x2, call.y2>>
               /\ (call.x1 = 1 /\ call.y1 = 1 /\ call.x2 = 5 /\ call.y2 = 5) =>
                      pts = << <<1, 1>>, <<2, 2>>, <<3, 3>>, <<4, 4>>, <<5, 5>> >>
               /\ (call.x1 = 1 /\ call.y1 = 1 /\ call.x2 = 5 /\ call.y2 = 1) =>
                      pts = << <<1, 1>>, <<2, 1>>, <<3, 1>>, <<4, 1>>, <<5, 1>> >>

C2_Witness ==
    /\ Returned("diagonal_line")
    /\ Accepted
    /\ call.x1 = 5 /\ call.y1 = 2 /\ call.x2 = 1 /\ call.y2 = 4
    /\ Len(pts) = 5

(***************************************************************************)
(* C3: in the two-point diagonal_line with a fixed viewport, a computed    *)
(* point has the symbol written at it if and only if it is a valid         *)
(* position; invalid points are skipped without an error, and no valid     *)
(* point (column W, row H and the end points included) is skipped.         *)
(***************************************************************************)
C3_WrittenIffValid ==
    (Returned("diagonal_line") /\ Accepted) =>
        /\ \A i \in DOMAIN pts :
               WrittenAt(out, call.symbol, pts[i][1], pts[i][2])
                   <=> ValidPos(pts[i][1], pts[i][2])
        /\ Count(out, "err") = 0

(***************************************************************************)
(* C4: if an end point of the two-point diagonal_line is not a valid       *)
(* position at call time (a coordinate above the viewport bound, or 0),    *)
(* the call reports exactly one BoundaryError and writes nothing.          *)
(***************************************************************************)
C4_InvalidEndPointDrawsNothing ==
    (Returned("diagonal_line")
        /\ ~(ValidPos(call.x1, call.y1) /\ ValidPos(call.x2, call.y2))) =>
        /\ Len(out) = 1
        /\ IsErr(out[1])

(***************************************************************************)
(* C5: for every Line whose n positions are all valid, show() writes       *)
(* exactly n glyphs, the i-th at origin + i*delta with delta East (+1,0),  *)
(* West (-1,0), North (0,-1), South (0,+1), NorthEast (+1,-1),             *)
(* NorthWest (-1,-1), SouthEast (+1,+1), SouthWest (-1,+1).                *)
(***************************************************************************)
C5_ShowWritesAlongDelta ==
    (call.op = "show" /\ AllValid(call.line)) =>
        LET l == call.line
            d == DrawPart(out)
        IN  /\ Len(d) = 2 * l.size
            /\ \A i \in 0..(l.size - 1) :
                   /\ d[2 * i + 1] = Mv(l.x + i * DeltaX(l.direction),
                                        l.y + i * DeltaY(l.direction))
                   /\ d[2 * i + 2].k = "ch"

(***************************************************************************)
(* C6 as stated: the line glyph of a shown Line at non-vertex positions is *)
(* East/West -> horizontal style glyph, North/South -> vertical style      *)
(* glyph, NorthWest -> U+2571, NorthEast, SouthWest, SouthEast -> U+2572.  *)
(***************************************************************************)
ClaimedGlyph(l) ==
    CASE l.direction \in {"East", "West"} -> get_horizontal_line_char(l.style.hs)
      [] l.direction \in {"North", "South"} -> get_vertical_line_char(l.style.vs)
      [] l.direction = "NorthWest" -> "U+2571"
      [] l.direction \in {"NorthEast", "SouthWest", "SouthEast"} -> "U+2572"

C6_GlyphAsStated ==
    call.op = "show" =>
        \A i \in 0..(Steps(DrawPart(out)) - 1) :
            ~IsVertexStep(call.line, i) =>
                DrawPart(out)[2 * i + 2] = Ch(ClaimedGlyph(call.line))

(***************************************************************************)
(* C6 amended: the line glyph of a shown Line at non-vertex positions is   *)
(* East/West -> horizontal style glyph, North/South -> vertical style      *)
(* glyph, NorthWest and SouthEast -> backward diagonal U+2572, NorthEast   *)
(* and SouthWest -> forward diagonal U+2571.                               *)
(***************************************************************************)
AmendedGlyph(l) ==
    CASE l.direction \in {"East", "West"} -> get_horizontal_line_char(l.style.hs)
      [] l.direction \in {"North", "South"} -> get_vertical_line_char(l.style.vs)
      [] l.direction \in {"NorthWest", "SouthEast"} -> "U+2572"
      [] l.direction \in {"NorthEast", "SouthWest"} -> "U+2571"

C6_GlyphByDirection ==
    call.op = "show" =>
        \A i \in 0..(Steps(DrawPart(out)) - 1) :
            ~IsVertexStep(call.line, i) =>
                DrawPart(out)[2 * i + 2] = Ch(AmendedGlyph(call.line))

C6_Witness ==
    /\ Returned("show")
    /\ call.line.direction = "SouthWest"
    /\ call.line.size = 3
    /\ out[4] = Ch("U+2571")

(***************************************************************************)
(* C7: for every Line with length >= 1 and start-vertex substitution       *)
(* enabled, show() writes the resolved start-vertex glyph at step 0, for   *)
(* every direction and line style, the Space style included; hide()        *)
(* writes a blank at step 0.                                               *)
(***************************************************************************)
C7_StartVertexAtStepZero ==
    (call.op \in {"show", "hide"} /\ call.line.size >= 1 /\ call.line.style.enabless) =>
        out[2] = Ch(IF call.op = "show" THEN get_vertice(call.line.style.ss) ELSE " ")

(***************************************************************************)
(* C8: for every Line with length >= 1 and end-vertex substitution         *)
(* enabled, show() writes the resolved end-vertex glyph at step            *)
(* length - 1, also when length = 1 and start-vertex substitution is       *)
(* enabled with a different start glyph.                                   *)
(***************************************************************************)
C8_EndVertexAtLastStep ==
    (call.op = "show" /\ call.line.size >= 1 /\ call.line.style.enablees
        /\ Steps(DrawPart(out)) >= call.line.size) =>
        DrawPart(out)[2 * call.line.size] = Ch(get_vertice(call.line.style.es))

(***************************************************************************)
(* C9: hide() emits what show() emits for the same field values with every *)
(* character replaced by a space: the same cursor moves to the same        *)
(* positions in the same order, one space where show writes a glyph, and   *)
(* no other character.                                                     *)
(***************************************************************************)
SameLine == prevCall.line = call.line /\ prevCall.w = call.w /\ prevCall.h = call.h

C9_HideBlanksWhatShowDraws ==
    /\ call.op = "hide" => \A i \in DOMAIN out : out[i].k = "ch" => out[i] = Ch(" ")
    /\ call.op = "hide" => out = Blank(Line_draw(call.line, TRUE, <<>>).out)
    /\ (call.op = "hide" /\ prevCall.op = "show") =>
           SameLine /\ out = Blank(DrawPart(prev))
    /\ (call.op = "show" /\ prevCall.op = "hide") =>
           SameLine /\ prev = Blank(DrawPart(out))

C9_Witness ==
    /\ Returned("hide")
    /\ prevCall.op = "show"
    /\ call.line.size = 3
    /\ prev[2] = Ch("U+2605")
    /\ prev[4] = Ch("U+2551")
    /\ out[3] = prev[3]
    /\ out[4] = Ch(" ")

(***************************************************************************)
(* C10: show(Some(d)) does the complete draw pass, then one wait of d,     *)
(* then the complete erase pass (the output of hide()): every glyph write  *)
(* precedes the wait and only blanks follow it; show(None) does the draw   *)
(* pass alone: no wait and no erase pass.                                  *)
(***************************************************************************)
NoSpaceGlyph(l) ==
    /\ l.style.hs # "Space"
    /\ l.style.vs # "Space"
    /\ l.style.ss.t # "Space"
    /\ l.style.es.t # "Space"

C10_ShowDrawsWaitsErases ==
    /\ call.op = "show" =>
           /\ Cardinality(WaitIdx(out)) <= 1
           /\ ~call.time.some => WaitIdx(out) = {}
           /\ \A w \in WaitIdx(out) :
                  /\ out[w] = Wait(call.time.d)
                  /\ Count(DrawPart(out), "ch") = call.line.size
                  /\ \A i \in (w + 1)..Len(out) : out[i].k = "ch" => out[i] = Ch(" ")
    /\ (Returned("show") /\ call.time.some) =>
           /\ Cardinality(WaitIdx(out)) = 1
           /\ ErasePart(out) = Blank(DrawPart(out))
    /\ (Returned("show") /\ ~call.time.some) =>
           /\ Count(out, "ch") = call.line.size
           /\ NoSpaceGlyph(call.line) => \A i \in DOMAIN out : out[i] # Ch(" ")
    /\ (Returned("show") /\ call.time.some /\ prevCall.op = "show" /\ ~prevCall.time.some) =>
           SameLine /\ DrawPart(out) = prev
    /\ (Returned("hide") /\ prevCall.op = "show" /\ prevCall.time.some) =>
           SameLine /\ out = ErasePart(prev)

C10_Witness ==
    /\ Returned("show")
    /\ call.time = Some(2)
    /\ call.line.size = 3
    /\ Len(out) = 13
    /\ out[7] = Wait(2)
    /\ out[6] # Ch(" ")
    /\ out[13] = Ch(" ")

(***************************************************************************)
(* C11 as stated: for a Line with vertex substitution disabled on both     *)
(* ends and any screen content before the call, show() followed by hide()  *)
(* leaves every cell of the affected region with the content it had before *)
(* show().                                                                 *)
(***************************************************************************)
ShowThenHide ==
    /\ call.op = "hide"
    /\ prevCall.op = "show"
    /\ ~call.line.style.enabless
    /\ ~call.line.style.enablees

C12_FieldsDecideOutput ==
    /\ call.op \in {"show", "hide"} => call.line = line
    /\ Returned("show") =>
           DrawPart(out) = Line_draw(call.line, TRUE, <<>>).out
    /\ (Returned("show") /\ prevCall.op = "show") =>
           SameLine /\ DrawPart(out) = DrawPart(prev)
    /\ call.op = "move_to" =>
           /\ out = <<>>
           /\ line.x = call.x
           /\ line.y = call.y

C12_LineFrame ==
    /\ []C12_FieldsDecideOutput
    /\ [][ /\ call'.op \in {"show", "hide"} => line' = line
           /\ (call'.op = "move_to" /\ pc = "idle") =>
                  line' = [line EXCEPT !.x = call'.x, !.y = call'.y]
         ]_vars

C12_Witness ==
    /\ Returned("show")
    /\ prevCall.op = "show"
    /\ prevCall.time = None
    /\ call.line.size = 3
    /\ Len(prev) = 6
    /\ DrawPart(out) = prev

(***************************************************************************)
(* Vocabulary of the box properties.                                       *)
(***************************************************************************)
BoxOps == {"draw_box", "draw_shaded_rectangle", "hide_box"}
\* the rectangle [x..x+width-1] x [y..y+height-1] of a request, and its perimeter
Rect(c) == {<<a, b>> : a \in c.x..(c.x + c.width - 1), b \in c.y..(c.y + c.height - 1)}
Perimeter(c) ==
    {p \in Rect(c) : \/ p[1] \in {c.x, c.x + c.width - 1}
                     \/ p[2] \in {c.y, c.y + c.height - 1}}
\* the request lies within the viewport of the call: x+width <= W and y+height <= H
Fits(c) == c.x + c.width <= c.w /\ c.y + c.height <= c.h
SameBox(a, b) ==
    /\ a.x = b.x /\ a.y = b.y /\ a.width = b.width /\ a.height = b.height
    /\ a.w = b.w /\ a.h = b.h
\* no cell is written twice
NoOverlap(log) ==
    \A i, j \in DOMAIN log : i # j => PaintSet(log, i) \cap PaintSet(log, j) = {}
IsBox(c, x, y, width, height) ==
    c.x = x /\ c.y = y /\ c.width = width /\ c.height = height

(***************************************************************************)
(* C13: for every viewport W x H and every (x, y, width, height) with      *)
(* x+width <= 65535 and y+height <= 65535, if x+width > W or y+height > H  *)
(* then draw_box returns a boundary failure and writes nothing: no cursor  *)
(* move, no glyph; the box (5,3,20,5) fails in a 10 x 10 viewport and      *)
(* succeeds in an 80 x 24 one.                                             *)
(***************************************************************************)
C13_BoxBeyondViewportFails ==
    call.op = "draw_box" =>
        /\ (/\ call.x + call.width <= U16Max
            /\ call.y + call.height <= U16Max
            /\ ~Fits(call)) =>
               call.ret = "Err" /\ out = <<>> /\ pc = "idle"
        /\ (IsBox(call, 5, 3, 20, 5) /\ call.w = 10 /\ call.h = 10) =>
               call.ret = "Err" /\ out = <<>>
        /\ (IsBox(call, 5, 3, 20, 5) /\ call.w = 80 /\ call.h = 24) =>
               call.ret = "Ok" /\ out # <<>>

C13_Witness ==
    /\ Returned("draw_box")
    /\ IsBox(call, 5, 3, 20, 5)
    /\ call.w = 10
    /\ call.ret = "Err"
    /\ prevCall.op = "set_viewport"

(***************************************************************************)
(* C14 as stated: for every draw_box with width >= 2 and height >= 2 that  *)
(* passes the bounds check (x+width <= W and y+height <= H), the positions *)
(* written are exactly the                                                 *)
(* perimeter of the rectangle, 2*(width-2) + 2*(height-2) + 4 distinct     *)
(* positions, 42 for the box (5,3,20,5); the interior is not written, edge *)
(* and corner positions do not overlap, and the four corners finally hold  *)
(* the style's corner glyphs.                                              *)
(***************************************************************************)
ClaimedCorners(style) ==
    CASE style = "Single" -> <<"U+250C", "U+2510", "U+2514", "U+2518">>
      [] style = "Double" -> <<"U+2554", "U+2557", "U+255A", "U+255D">>
      [] style = "SingleRounded" -> <<"U+256D", "U+256E", "U+2570", "U+256F">>
      [] style = "DoubleRounded" -> <<"U+2552", "U+2555", "U+2558", "U+255B">>
      [] style \in {"Dotted", "Dashed"} -> <<"U+250C", "U+2510", "U+2514", "U+2518">>

PerimeterDrawn(c, log) ==
    /\ Cells(log) = Perimeter(c)
    /\ Cardinality(Cells(log)) = 2 * (c.width - 2) + 2 * (c.height - 2) + 4
    /\ NoOverlap(log)
    /\ LET g == ClaimedCorners(c.style)
           r == c.x + c.width - 1
           b == c.y + c.height - 1
       IN  /\ Content(log, <<c.x, c.y>>, "#") = g[1]
           /\ Content(log, <<r, c.y>>, "#") = g[2]
           /\ Content(log, <<c.x, b>>, "#") = g[3]
           /\ Content(log, <<r, b>>, "#") = g[4]

C14_PerimeterAsStated ==
    (call.op = "draw_box" /\ call.width >= 2 /\ call.height >= 2 /\ Fits(call)) =>
        /\ call.ret = "Ok"
        /\ PerimeterDrawn(call, out)
        /\ IsBox(call, 5, 3, 20, 5) => Cardinality(Cells(out)) = 42

(***************************************************************************)
(* C14 amended: for every draw_box with width >= 2, height >= 2,           *)
(* x+width <= W and y+height <= H, the positions written are exactly the   *)
(* perimeter of the rectangle, 2*(width-2) + 2*(height-2) + 4 distinct     *)
(* positions, 46 for the box (5,3,20,5); the interior is not written, edge *)
(* and corner positions do not overlap, and the four corners finally hold  *)
(* the style's corner glyphs.                                              *)
(***************************************************************************)
C14_PerimeterDrawn ==
    (call.op = "draw_box" /\ call.width >= 2 /\ call.height >= 2 /\ Fits(call)) =>
        /\ call.ret = "Ok"
        /\ PerimeterDrawn(call, out)
        /\ IsBox(call, 5, 3, 20, 5) => Cardinality(Cells(out)) = 46

C14_Witness ==
    /\ Returned("draw_box")
    /\ IsBox(call, 5, 3, 20, 5)
    /\ call.style = "DoubleRounded"
    /\ call.ret = "Ok"
    /\ Cardinality(Cells(out)) = 46
    /\ Content(out, <<24, 7>>, "#") = "U+255B"
    /\ Content(out, <<6, 4>>, "#") = "#"

(***************************************************************************)
(* C15: for every draw_shaded_rectangle that passes the bounds check       *)
(* (x+width <= W and y+height <= H), exactly the width*height positions of *)
(* the rectangle are written, each with the one glyph the shade selects    *)
(* (Light U+2591, Medium U+2592, Dark U+2593, Solid U+2588), and no other  *)
(* position is written.                                                    *)
(***************************************************************************)
ClaimedShade(shade) ==
    CASE shade = "Light" -> "U+2591"
      [] shade = "Medium" -> "U+2592"
      [] shade = "Dark" -> "U+2593"
      [] shade = "Solid" -> "U+2588"

Filled(c, log, glyph) ==
    /\ Cells(log) = Rect(c)
    /\ Cardinality(Cells(log)) = c.width * c.height
    /\ NoOverlap(log)
    /\ \A p \in Rect(c) : Content(log, p, "#") = glyph
    /\ \A i \in DOMAIN log : log[i].k \in {"rows", "ch"} => log[i].c = glyph

C15_ShadedRectangleFills ==
    (call.op = "draw_shaded_rectangle" /\ Fits(call)) =>
        /\ call.ret = "Ok"
        /\ Filled(call, out, ClaimedShade(call.shade))

C15_Witness ==
    /\ Returned("draw_shaded_rectangle")
    /\ IsBox(call, 1, 1, 3, 3)
    /\ call.shade = "Dark"
    /\ Cardinality(Cells(out)) = 9
    /\ Content(out, <<3, 3>>, "#") = "U+2593"
    /\ Content(out, <<4, 3>>, "#") = "#"

(***************************************************************************)
(* C16 as stated: draw_shaded_rectangle(0,0,3,3,Solid) succeeds in any     *)
(* viewport, those smaller than 3 x 3 included, and fills exactly 9        *)
(* positions with the full-block glyph; hide_box(0,0,3,3) in the same      *)
(* viewport overwrites exactly those 9 positions with spaces.              *)
(***************************************************************************)
FillsNine ==
    /\ (call.op = "draw_shaded_rectangle" /\ call.shade = "Solid") =>
           call.ret = "Ok" /\ Filled(call, out, "U+2588")
    /\ call.op = "hide_box" => call.ret = "Ok" /\ Filled(call, out, " ")
    /\ (call.op = "hide_box" /\ prevCall.op = "draw_shaded_rectangle") =>
           /\ SameBox(prevCall, call)
           /\ Cells(out) = Cells(prev)
           /\ \A p \in Cells(prev) : Content(prev \o out, p, "#") = " "

NineRequest ==
    /\ \/ call.op = "hide_box"
       \/ call.op = "draw_shaded_rectangle" /\ call.shade = "Solid"
    /\ IsBox(call, 0, 0, 3, 3)

C17_HideBoxBlanksRectangle ==
    call.op = "hide_box" =>
        /\ prevCall.op = "draw_box" =>
               SameBox(prevCall, call) /\ call.ret = prevCall.ret
        /\ call.ret = "Ok" => Filled(call, out, " ")
        /\ (call.ret = "Ok" /\ prevCall.op \in {"draw_box", "draw_shaded_rectangle"}) =>
               /\ SameBox(prevCall, call)
               /\ \A i \in DOMAIN prev : \A p \in PaintSet(prev, i) :
                      Content(prev \o out, p, "#") = " "

(***************************************************************************)
(* C18: get_viewport() returns (80,24) before any set_viewport call and    *)
(* otherwise the (width, height) of the most recent set_viewport call, for *)
(* all u16 values, 0 included; set_viewport never fails or clamps, and no  *)
(* drawing or cursor operation changes the stored viewport.                *)
(***************************************************************************)
C18_ViewportAsSet ==
    /\ call.op = "none" => get_viewport = <<80, 24>>
    /\ call.op = "set_viewport" => get_viewport = <<call.w, call.h>> /\ pc = "idle"
    /\ call.op \in {"move_cursor_to", "diagonal_line"} =>
           get_viewport = <<call.w, call.h>>

C18_ViewportFrame ==
    /\ []C18_ViewportAsSet
    /\ [][call'.op # "set_viewport" => get_viewport' = get_viewport]_vars

C18_Witness ==
    /\ Returned("diagonal_line")
    /\ get_viewport = <<0, 0>>
    /\ call.w = 0

(***************************************************************************)
(* C19: after set_viewport with width = 0 or height = 0 everything is out  *)
(* of bounds: every move_cursor_to(x, y), every two-point diagonal_line    *)
(* and every draw_box / draw_shaded_rectangle / hide_box request, zeros    *)
(* included, fails with a boundary error and writes nothing.               *)
(***************************************************************************)
C19_ZeroViewportRefusesAll ==
    ((vw = 0 \/ vh = 0) /\ pc = "idle") =>
        /\ call.op \in {"move_cursor_to", "diagonal_line"} =>
               Len(out) = 1 /\ IsErr(out[1])
        /\ call.op \in BoxOps => call.ret = "Err" /\ out = <<>>

(***************************************************************************)
(* C20: with the default error handler, when a BoundaryError is reported   *)
(* during a drawing call (move_cursor_to, two-point diagonal_line,         *)
(* Line.show, Line.hide), the call writes nothing further to the sink      *)
(* after the error, the process is not terminated by it, and the caller's  *)
(* Line and the viewport are unchanged.                                    *)
(***************************************************************************)
C20_NothingAfterBoundaryError ==
    call.op \in {"move_cursor_to", "diagonal_line", "show", "hide"} =>
        /\ \A i \in DOMAIN out : IsErr(out[i]) => i = Len(out)
        /\ call.op \in {"show", "hide"} => call.line = line
        /\ get_viewport = <<call.w, call.h>>

(***************************************************************************)
(* C21: read_key() consumes exactly one line of the input, returns that    *)
(* line's first character and discards the rest of that line; every later  *)
(* line is still there for the next read_line / read_key, and '\0' is      *)
(* returned only when the line read is empty or the read fails.            *)
(***************************************************************************)
C21_ReadKeyConsumesOneLine ==
    /\ call.op = "read_key" =>
           /\ stdin = IF call.before = <<>> THEN <<>> ELSE Tail(call.before)
           /\ (call.before # <<>> /\ call.before[1].ok) => call.ret = call.before[1].s[1]
           /\ call.ret = Nul => (call.before = <<>> \/ ~call.before[1].ok)
    /\ (call.op \in {"read_line", "read_key"} /\ prevCall.op = "read_key"
           /\ Len(prevCall.before) >= 2) =>
           /\ call.before # <<>>
           /\ call.before[1] = prevCall.before[2]

(***************************************************************************)
(* C22: the direction-based Line draw validates no step: for every origin, *)
(* length, direction and viewport, show() and hide() never report a        *)
(* BoundaryError, and every one of the `length` glyphs of a pass is        *)
(* emitted, also when its position lies outside the viewport.              *)
(***************************************************************************)
C22_NoPerStepValidation ==
    call.op \in {"show", "hide"} =>
        /\ Count(out, "err") = 0
        /\ Count(DrawPart(out), "ch") = call.line.size
        /\ Returned("show") /\ call.time.some =>
               Count(ErasePart(out), "ch") = call.line.size

(***************************************************************************)
(* C23: for every draw_box request that passes the bounds check, width < 2 *)
(* or height < 2 included, the edge lengths width-2 and height-2 are       *)
(* computed without unsigned underflow: no edge longer than the requested  *)
(* width / height is drawn and no glyph is written outside the rectangle   *)
(* [x..x+width-1] x [y..y+height-1].                                       *)
(***************************************************************************)
C23_EdgesWithoutUnderflow ==
    (call.op = "draw_box" /\ Fits(call)) =>
        /\ call.ret = "Ok"
        /\ \A i \in DOMAIN out :
               /\ out[i].k = "ch" => out[i].n <= call.width
               /\ out[i].k \in {"rows", "errrows"} => out[i].n <= call.height
        /\ Cells(out) \subseteq Rect(call)

(***************************************************************************)
(* C24: the loop of the two-point diagonal_line terminates for every pair  *)
(* of end points that passes the end-point check and every viewport: the   *)
(* current point never steps past the end point on either axis and         *)
(* eventually equals (x2,y2); degenerate, horizontal and vertical segments *)
(* and the four sign combinations of the step included.                    *)
(***************************************************************************)
Between(a, v, b) == (a <= v /\ v <= b) \/ (b <= v /\ v <= a)

C24_NeverPastEndPoint ==
    pc = "diag" =>
        /\ Between(call.x1, loc.x, call.x2)
        /\ Between(call.y1, loc.y, call.y2)
        /\ Len(pts) <= Max(Abs(call.x2 - call.x1), Abs(call.y2 - call.y1))

C24_LoopTerminates ==
    /\ []C24_NeverPastEndPoint
    /\ (pc = "diag") ~> (/\ Returned("diagonal_line")
                         /\ pts # <<>>
                         /\ pts[Len(pts)] = <<call.x2, call.y2>>)

C24_Witness ==
    /\ Returned("diagonal_line")
    /\ Accepted
    /\ call.x1 = 4 /\ call.y1 = 5 /\ call.x2 = 0 /\ call.y2 = 3
    /\ pts = << <<4, 5>>, <<3, 4>>, <<2, 4>>, <<1, 3>>, <<0, 3>> >>

(***************************************************************************)
(* C25: if another thread shrinks the viewport with set_viewport while a   *)
(* two-point diagonal_line call is in progress, each remaining point that  *)
(* lies outside the new current viewport is silently skipped: no symbol is *)
(* written for it, no BoundaryError is reported for it, and the rest of    *)
(* the line still proceeds.                                                *)
(***************************************************************************)
C25_ShrunkViewportSkipsSilently ==
    (call.op = "diagonal_line" /\ Accepted) =>
        /\ Count(out, "err") = 0
        /\ \A i \in DOMAIN out :
               out[i].k = "ch" => (i > 1 /\ out[i - 1].k = "mv")
        /\ \A i \in DOMAIN out :
               out[i].k = "mv" => \E j \in DOMAIN pts : pts[j] = <<out[i].x, out[i].y>>

(***************************************************************************)
(* Vocabulary of the properties of line::diagonal_line.                    *)
(***************************************************************************)
FreeCall == call.op = "line::diagonal_line"
Cardinals == {"North", "South", "East", "West"}
Diagonals == {"NorthEast", "NorthWest", "SouthEast", "SouthWest"}
\* the first k steps of log each are an accepted cursor move and one character
GlyphPairs(log, k) ==
    /\ Len(log) >= 2 * k
    /\ \A i \in 1..k : log[2 * i - 1].k = "mv" /\ log[2 * i].k = "ch" /\ log[2 * i].n = 1
\* the position (x, y) fails the test of the loop in the viewport of the call c
FailsCheck(c, x, y) == x >= c.w \/ y >= c.h \/ x < 1 \/ y < 1

\* the call wrote the glyphs of the steps 0..k-1 along one diagonal unit step
\* from its origin and, when k < size, stopped at step k with one BoundaryError:
\* the step whose position is the first to fail the test
StoppedAtFirstFailure(c, log) ==
    LET k == Count(log, "ch")
    IN  /\ k <= c.size
        /\ GlyphPairs(log, k)
        /\ Len(log) = IF k < c.size THEN 2 * k + 1 ELSE 2 * k
        /\ k < c.size => IsErr(log[2 * k + 1])
        /\ Count(log, "err") = IF k < c.size THEN 1 ELSE 0
        /\ \E dx \in {-1, 1}, dy \in {-1, 1} :
               /\ \A i \in 0..(k - 1) :
                      /\ log[2 * i + 1] = Mv(c.x + i * dx, c.y + i * dy)
                      /\ ~FailsCheck(c, c.x + i * dx, c.y + i * dy)
               /\ k < c.size => FailsCheck(c, c.x + k * dx, c.y + k * dy)

(***************************************************************************)
(* C26 as stated: in line::diagonal_line(x,y,size,direction), if step k    *)
(* (k >= 1) is the first step whose position fails the bounds check, then  *)
(* exactly the glyphs of steps 0..k-1 have been written and stay on        *)
(* screen, exactly one BoundaryError is reported, and no glyph of step k   *)
(* or later is written; called with a cardinal direction it writes nothing *)
(* and reports no error.                                                   *)
(***************************************************************************)
C26_FailureNotAtomic ==
    FreeCall =>
        /\ call.ret = "Ok"
        /\ (call.direction \in Diagonals /\ Count(out, "ch") >= 1) =>
               StoppedAtFirstFailure(call, out)
        /\ call.direction \in Cardinals => out = <<>>

(***************************************************************************)
(* C26 amended: the same, but called with a cardinal direction it writes   *)
(* nothing and reports no error only when the start position passes the    *)
(* start check (x < W and y < H); when it does not, it reports exactly one *)
(* BoundaryError and writes nothing.                                       *)
(***************************************************************************)
C26_FailureNotAtomicStartChecked ==
    FreeCall =>
        /\ call.ret = "Ok"
        /\ (call.direction \in Diagonals /\ Count(out, "ch") >= 1) =>
               StoppedAtFirstFailure(call, out)
        /\ call.direction \in Cardinals =>
               IF call.x < call.w /\ call.y < call.h
               THEN out = <<>>
               ELSE Len(out) = 1 /\ IsErr(out[1])

C26_Witness ==
    /\ FreeCall
    /\ pc = "idle"
    /\ call.direction = "NorthEast"
    /\ call.x = 2 /\ call.y = 5 /\ call.size = 3
    /\ Len(out) = 5
    /\ out[3] = Mv(1, 4)
    /\ out[4] = Ch("U+2572")
    /\ IsErr(out[5])

(***************************************************************************)
(* C27: during show() and hide() the u8 cursor coordinates never underflow *)
(* below 0 or overflow above 255, for every origin, length and direction,  *)
(* the advance applied after the last glyph included: no pass ends in an   *)
(* overflow panic, and each step's position is the one before it plus the  *)
(* direction's delta.                                                      *)
(***************************************************************************)
C27_NoU8Overflow ==
    call.op \in {"show", "hide"} =>
        /\ pc # "panic"
        /\ \A i \in 1..(Len(DrawPart(out)) - 2) :
               (out[i].k = "mv" /\ out[i + 2].k = "mv") =>
                   /\ out[i + 2].x = out[i].x + DeltaX(call.line.direction)
                   /\ out[i + 2].y = out[i].y + DeltaY(call.line.direction)

(***************************************************************************)
(* C28: the bounds checks of draw_box, draw_shaded_rectangle and hide_box  *)
(* never accept a rectangle through 16-bit wrap-around: for all u16 x, y,  *)
(* width, height whose true sum x+width or y+height exceeds 65535, the     *)
(* request is rejected with a boundary failure and nothing is written.     *)
(***************************************************************************)
C28_NoWrapAcceptance ==
    (/\ call.op \in BoxOps
     /\ (call.x + call.width > U16Max \/ call.y + call.height > U16Max)) =>
        /\ call.ret = "Err"
        /\ out = <<>>

(***************************************************************************)
(* C29: draw_box accepts exactly the requests whose rectangle consists of  *)
(* valid positions: for width >= 2 and height >= 2 it succeeds if and only *)
(* if 1 <= x, 1 <= y, x+width-1 <= W and y+height-1 <= H; a box whose      *)
(* rightmost column is W or whose bottom row is H is drawn, and a box with *)
(* x = 0 or y = 0 is rejected.                                             *)
(***************************************************************************)
C29_DrawBoxAcceptsValidRectangles ==
    (call.op = "draw_box" /\ call.width >= 2 /\ call.height >= 2) =>
        /\ call.ret = "Ok" <=>
               /\ 1 <= call.x
               /\ 1 <= call.y
               /\ call.x + call.width - 1 <= call.w
               /\ call.y + call.height - 1 <= call.h
        /\ call.ret # "Ok" => call.ret = "Err" /\ out = <<>>

(***************************************************************************)
(* C30: for each diagonal direction and every origin and size for which    *)
(* all positions are inside the viewport, line::diagonal_line(x, y, size,  *)
(* direction) writes the same sequence of (position, glyph) pairs as       *)
(* show() of a Line with the same origin, length and direction and both    *)
(* vertex substitutions disabled: per-step delta NorthEast (+1,-1),        *)
(* NorthWest (-1,-1), SouthEast (+1,+1), SouthWest (-1,+1), and the same   *)
(* diagonal glyph.                                                         *)
(***************************************************************************)
LineOf(c) ==
    [x |-> c.x, y |-> c.y, size |-> c.size,
     style |-> LineStyle("Light", "Light", VSpace, VSpace, FALSE, FALSE),
     direction |-> c.direction]

C30_FreeFunctionAsLineShow ==
    (FreeCall /\ call.direction \in Diagonals /\ AllValid(LineOf(call))) =>
        /\ GlyphPairs(out, call.size)
        /\ Len(out) = 2 * call.size
        /\ \A i \in 0..(call.size - 1) :
               out[2 * i + 1] = Mv(call.x + i * DeltaX(call.direction),
                                   call.y + i * DeltaY(call.direction))
        /\ out = Line_draw(LineOf(call), TRUE, <<>>).out

====
